---- MODULE Spec2Model ----
(***************************************************************************)
(* A model of the python-pods client (src/src/pythonpods.py): the process- *)
(* wide registry `pods`, the module table, the per-pod waiter table        *)
(* `chans`, the request and reply streams of each child process, the       *)
(* processor thread of each pod, and the caller threads that run load_pod, *)
(* invoke and destroy.                                                     *)
(***************************************************************************)
EXTENDS Integers, Sequences, FiniteSets, TLC

\* ------------------------------------------------------------------ bounds
\* Two specifications share the actions below.  Spec follows the calls
\* multiplexed over one pod; SpecLife follows the loading and destroying of
\* several pods.
\* load_pod calls (each launches one child process): in SpecLife, in Spec
MaxPods == 2
MuxPods == 1
\* invoke calls (each allocates one fresh correlation id): in Spec, in SpecLife
MaxIds == 2
LifeIds == 1
\* reply envelopes the child emits in Spec
MaxReplies == 3
\* destroy calls in SpecLife
MaxDestroys == 2

Procs == 1..MaxPods
Ids == 1..MaxIds
Destroys == 1..MaxDestroys

\* ------------------------------------------------------------ python values
PyNone == [tag |-> "None", n |-> 0]
PyInt(k) == [tag |-> "int", n |-> k]
\* {}: the empty dict
PyEmptyDict == [tag |-> "dict", n |-> 0]
\* Python's truth value of a decoded value: None, 0 and {} are false
Truthy(v) == v.tag \notin {"None", "dict"} /\ ~(v.tag = "int" /\ v.n = 0)
\* PodError(ex_message, ex_data), pythonpods.py:70-73: self.data = data or {}
PodError(message, data) ==
  [tag |-> "PodError", n |-> 0, message |-> message,
   data |-> IF Truthy(data) THEN data ELSE PyEmptyDict]

\* The textual payload of a reply's "value" field, before decoding.
NoPayload == [enc |-> "absent", n |-> 0]
NumPayload(k) == [enc |-> "num", n |-> k]
NilPayload == [enc |-> "nil", n |-> 0]
BadPayload == [enc |-> "garbage", n |-> 0]

\* read_fn, pythonpods.py:427-449: edn.from_edn / json.loads of the payload
\* text.  "nil"/"null" decodes to None; malformed text raises.
read_fn(s) ==
  CASE s.enc = "num" -> [raised |-> FALSE, value |-> PyInt(s.n)]
    [] s.enc = "nil" -> [raised |-> FALSE, value |-> PyNone]
    [] OTHER -> [raised |-> TRUE, value |-> PyNone]

\* ------------------------------------------------------------------ waiters
\* chan = Future()  (pythonpods.py:367) or chan = handlers (pythonpods.py:365).
\* nset counts the completions of the waiter: the successful set_result /
\* set_exception calls of a future, the error and done calls of a handler set.
NewFuture ==
  [kind |-> "future", state |-> "pending", val |-> PyNone, calls |-> <<>>, nset |-> 0]
NewHandlers ==
  [kind |-> "handlers", state |-> "pending", val |-> PyNone, calls |-> <<>>, nset |-> 0]

\* A future that never reports itself done
FutureDoneNever(w) == FALSE

\* concurrent.futures.Future.done()
FutureDone(w) == w.state # "pending"

\* Future.set_result(v): InvalidStateError once the future is done
\* (pythonpods.py:529, 531, 541).
FutureSetResult(w, v) ==
  IF FutureDone(w)
  THEN [w |-> w, raised |-> TRUE]
  ELSE [w |-> [w EXCEPT !.state = "result", !.val = v, !.nset = @ + 1],
        raised |-> FALSE]

\* Future.set_exception(e): InvalidStateError once the future is done
\* (pythonpods.py:527).
FutureSetException(w, e) ==
  IF FutureDone(w)
  THEN [w |-> w, raised |-> TRUE]
  ELSE [w |-> [w EXCEPT !.state = "exception", !.val = e, !.nset = @ + 1],
        raised |-> FALSE]

\* success_handler(value), pythonpods.py:534
CallSuccess(w, v) ==
  [w EXCEPT !.calls = Append(@, [h |-> "success", val |-> v])]
\* error_handler({"ex-message": ex_message, "ex-data": ex_data}), pythonpods.py:536
CallError(w, message, data) ==
  [w EXCEPT !.calls = Append(@, [h |-> "error",
                                  val |-> [tag |-> "ex", n |-> 0,
                                           message |-> message, data |-> data]]),
            !.nset = @ + 1]
\* done_handler(), pythonpods.py:543
CallDone(w) ==
  [w EXCEPT !.calls = Append(@, [h |-> "done", val |-> PyNone]), !.nset = @ + 1]

\* ---------------------------------------------------------------- envelopes
\* bencode.encode(message), pythonpods.py:299: the bytes of one request
\* envelope, as two consecutive pieces of the byte string.
bencode_encode(op, id) ==
  << [op |-> op, id |-> id, part |-> 1], [op |-> op, id |-> id, part |-> 2] >>
\* The same for the load-ns request, which carries the namespace name,
\* pythonpods.py:922-928
bencode_encode_load_ns(ns, id) ==
  << [op |-> "load-ns", id |-> id, part |-> 1, ns |-> ns],
     [op |-> "load-ns", id |-> id, part |-> 2, ns |-> ns] >>

\* A write that lets another writer in after the first chunk
WriteLenTorn(data) == 1

\* The bytes one stream.write(data) call puts on the stream before another
\* writer can run (pythonpods.py:300): stream is a buffered binary writer,
\* whose write() holds the writer's lock for the whole call.
WriteLen(data) == Len(data)

\* The request envelopes the child can decode from its input: an envelope is
\* readable when its pieces lie next to each other on the stream.
Framed(s, k) ==
  /\ k + 1 <= Len(s)
  /\ s[k].part = 1
  /\ s[k + 1] = [s[k] EXCEPT !.part = 2]
RequestIds(s) ==
  { s[k].id : k \in { j \in 1..Len(s) : Framed(s, j) /\ s[j].op = "invoke" } }
\* The load-ns requests the child can decode: id and namespace name
LoadNsRequests(s) ==
  { [id |-> s[k].id, ns |-> s[k].ns] :
      k \in { j \in 1..Len(s) : Framed(s, j) /\ s[j].op = "load-ns" } }

\* A reply envelope: id (0: no id the client knows), the "value" payload text,
\* the status list as a set, whether out / err / vars fields are present, the
\* "name" and the vars list (nvars tells one list from another) of a load-ns
\* reply, and the "ex-message" and "ex-data" texts of an error reply.
Reply(id, value, status) ==
  [id |-> id, value |-> value, status |-> status,
   out |-> FALSE, err |-> FALSE, vars |-> FALSE, name |-> "", nvars |-> 0,
   ex_message |-> "", ex_data |-> NoPayload]

\* The shapes of reply the children send in the main specification.
ReplyShapes ==
  { [kind |-> k, status |-> s] :
      k \in {"absent", "num", "nil"}, s \in {{}, {"done"}, {"error"}} }
    \ { [kind |-> "absent", status |-> {}] }

ShapeReply(id, sh, n) ==
  Reply(id,
        CASE sh.kind = "num" -> NumPayload(n)
          [] sh.kind = "nil" -> NilPayload
          [] sh.kind = "garbage" -> BadPayload
          [] OTHER -> NoPayload,
        sh.status)

\* ---------------------------------------------------------------- processor
\* namespace = {"name": name_str, "vars": bencode_to_vars(...)}, pythonpods.py:489-496
PyNamespace(reply) == [tag |-> "namespace", n |-> reply.nvars, name |-> reply.name]

\* pythonpods.py:460-470
ReplyDecode(reply) ==
  IF reply.value.enc = "absent"
  THEN [raised |-> FALSE, value |-> PyNone]
  ELSE read_fn(reply.value)
\* pythonpods.py:475
ReplyError(reply) == ReplyDecode(reply).raised \/ "error" \in reply.status
\* pythonpods.py:476
ReplyDone(reply) ==
  ReplyError(reply) \/ ReplyDecode(reply).raised \/ "done" \in reply.status

\* ex_message and ex_data of an error reply, pythonpods.py:478-487: the
\* "ex-message" text or "", the decoded "ex-data" text or {} when it is
\* absent or does not decode
ExMessage(reply) == IF ReplyError(reply) THEN reply.ex_message ELSE ""
\* The "ex-data" text never decoded
ExDataUndecoded(reply) == PyEmptyDict

ExData(reply) ==
  IF ReplyError(reply) /\ reply.ex_data.enc # "absent" /\ ~read_fn(reply.ex_data).raised
  THEN read_fn(reply.ex_data).value
  ELSE PyEmptyDict

\* pythonpods.py:524-536: "Handle the main response"
DeliverMain(w, reply) ==
  LET error == ReplyError(reply)
      value == ReplyDecode(reply).value
      ex_message == ExMessage(reply)
      ex_data == ExData(reply)
  IN  IF ~(reply.value.enc # "absent" \/ error \/ reply.vars)
      THEN [w |-> w, raised |-> FALSE]
      ELSE IF w.kind = "future"
      THEN IF error THEN FutureSetException(w, PodError(ex_message, ex_data))
           ELSE IF value # PyNone THEN FutureSetResult(w, value)
           ELSE IF reply.vars THEN FutureSetResult(w, PyNamespace(reply))
           ELSE [w |-> w, raised |-> FALSE]
      ELSE IF ~error
           THEN [w |-> CallSuccess(w, value), raised |-> FALSE]
           ELSE [w |-> CallError(w, ex_message, ex_data), raised |-> FALSE]

\* The done branch with the future's settling left out
DeliverDoneSkipFuture(w, reply) ==
  IF ReplyDone(reply) /\ ~ReplyError(reply)
  THEN IF w.kind = "future" THEN w ELSE CallDone(w)
  ELSE w

\* pythonpods.py:538-543
DeliverDone(w, reply) ==
  IF ReplyDone(reply) /\ ~ReplyError(reply)
  THEN IF w.kind = "future"
       THEN IF ~FutureDone(w) THEN FutureSetResult(w, PyNone).w ELSE w
       ELSE CallDone(w)
  ELSE w

\* The out / err strings one reply forwards to the sinks, pythonpods.py:512-521
Forwarded(reply) ==
  (IF reply.out THEN << "out" >> ELSE << >>) \o (IF reply.err THEN << "err" >> ELSE << >>)

\* One turn of the processor's loop on the envelope `reply`, pythonpods.py:459-543,
\* for the waiter table c: the table and sinks afterwards, and whether an
\* exception left the loop (pythonpods.py:545).
ProcessReply(c, reply) ==
  IF reply.id \notin DOMAIN c
  THEN [chans |-> c, sink |-> << >>, raised |-> FALSE]
  ELSE LET m == DeliverMain(c[reply.id], reply)
       IN  IF m.raised
           THEN [chans |-> c, sink |-> Forwarded(reply), raised |-> TRUE]
           ELSE [chans |-> [c EXCEPT ![reply.id] = DeliverDone(m.w, reply)],
                 sink |-> Forwarded(reply), raised |-> FALSE]

\* read_message(stdout), pythonpods.py:303-308: the next envelope of the stream
ReadMessage(s) == Head(s)

\* ------------------------------------------------------------ describe reply
\* The describe replies a child may send: its format ("" when the reply has
\* none), its ops and its namespaces (name, defer), consumed by load_pod,
\* pythonpods.py:846-861.
DescribeA ==
  [format |-> "json", ops |-> {"invoke", "shutdown", "load-ns"},
   namespaces |-> << [name |-> "a", defer |-> FALSE, vars |-> 0],
                     [name |-> "a.k", defer |-> TRUE, vars |-> 0] >>]
DescribeB ==
  [format |-> "", ops |-> {"invoke"},
   namespaces |-> << [name |-> "b", defer |-> FALSE, vars |-> 0] >>]
DescribeNone ==
  [format |-> "json", ops |-> {"invoke", "shutdown"}, namespaces |-> << >>]

\* describe_to_metadata(reply)["format"], pythonpods.py:760-762
FormatOf(reply) == IF reply.format # "" THEN reply.format ELSE "edn"

\* What one load_pod call meets: the child's describe reply, and whether the
\* caller gave a remove_ns hook (pythonpods.py:828).
LoadInputs ==
  { [reply |-> DescribeA, remove_ns |-> TRUE],
    [reply |-> DescribeB, remove_ns |-> FALSE],
    [reply |-> DescribeNone, remove_ns |-> TRUE] }

NsNames == {"a", "a.k", "b"}

\* next_id() for a pod without namespaces, pythonpods.py:860-861: a fresh
\* uuid string, one per load_pod call.
Uuids == << "uuid-1", "uuid-2", "uuid-3", "uuid-4", "uuid-5", "uuid-6" >>
PodIds == {"a", "b"} \cup { Uuids[p] : p \in Procs }

\* pods.get(None) and a dict without the key: Python's None as a pod id
NoneId == "None"

\* pythonpods.py:854-861
PodIdOf(p, reply) ==
  IF reply.namespaces # << >> THEN reply.namespaces[1].name ELSE Uuids[p]

\* namespace_to_module_name, pythonpods.py:76-79
namespace_to_module_name(ns_name) ==
  CASE ns_name = "a.k" -> "a_k"
    [] OTHER -> ns_name
ModuleNames == { namespace_to_module_name(n) : n \in NsNames }

\* The keys of the pod dict load_pod builds, pythonpods.py:864-877, 885, 905
PodKeys ==
  {"process", "pod_spec", "stdin", "stdout", "chans", "format", "ops", "out",
   "err", "remove_ns", "readers", "pod_id", "namespaces", "processor_thread"}

\* opts.get("metadata"): << >> when the option is not given, else the
\* describe reply it holds
NoMetadata == << >>

NoPod ==
  [pod_id |-> NoneId, format |-> "", ops |-> {}, namespaces |-> << >>,
   remove_ns |-> FALSE, metadata |-> NoMetadata]
NoModule == [ns |-> "", pod_id |-> NoneId, vars |-> 0]

\* -------------------------------------------------------------------- state
VARIABLES
  proc,               \* child process of each load_pod call: unborn, running,
                      \* exited (ended, not waited for), reaped (wait returned)
  podobj,             \* the pod dict of each load_pod call, and the call's
                      \* metadata option
  chans,              \* pod["chans"]: correlation id -> waiter
  stdin,              \* the bytes written to the child's input, in order
  stdout,             \* the reply envelopes the child wrote, not yet read
  processor,          \* the processor thread of each pod
  pods,               \* the registry: pod id -> pod (0: absent)
  loaded_namespaces,  \* pod id -> names of the namespaces tracked as loaded
  sys_modules,        \* module name -> the pod module registered under it
  sinks,              \* what was written to the out / err sinks
  removed,            \* the calls of remove_ns hooks: <<pod, namespace name>>
  ld,                 \* load_pod calls: where each is
  inv,                \* invoke calls: where each is, its pod, bytes left to
                      \* write, the pod id given to invoke_public
  ds,                 \* destroy calls: where each is, and its locals
  hist,               \* the reply envelopes each processor has read, in order
  nreplies,           \* reply envelopes emitted so far
  port                \* socket transport: the child's port file and whether
                      \* the child accepts connections

vars ==
  << proc, podobj, chans, stdin, stdout, processor, pods, loaded_namespaces,
     sys_modules, sinks, removed, ld, inv, ds, hist, nreplies, port >>

NoWaiters == [i \in {} |-> NewFuture]
NoPort == [file |-> "absent", listening |-> FALSE]
IdleInvoke ==
  [pc |-> "idle", pod |-> 0, towrite |-> << >>, op |-> "", ns |-> "", k |-> 0,
   pod_id |-> NoneId]
IdleDestroy ==
  [pc |-> "idle", by |-> "", pod_id |-> NoneId, pod |-> 0, towrite |-> << >>,
   named |-> 0, pending0 |-> {}, used |-> 0]

Init ==
  /\ proc = [p \in Procs |-> "unborn"]
  /\ podobj = [p \in Procs |-> NoPod]
  /\ chans = [p \in Procs |-> NoWaiters]
  /\ stdin = [p \in Procs |-> << >>]
  /\ stdout = [p \in Procs |-> << >>]
  /\ processor = [p \in Procs |-> "none"]
  /\ pods = [k \in PodIds |-> 0]
  /\ loaded_namespaces = [k \in PodIds |-> {}]
  /\ sys_modules = [m \in ModuleNames |-> NoModule]
  /\ sinks = << >>
  /\ removed = << >>
  /\ ld = [p \in Procs |-> "idle"]
  /\ inv = [i \in Ids |-> IdleInvoke]
  /\ ds = [d \in Destroys |-> IdleDestroy]
  /\ hist = [p \in Procs |-> << >>]
  /\ nreplies = 0
  /\ port = [p \in Procs |-> NoPort]

\* lookup_pod, pythonpods.py:554-556
lookup_pod(pod_id) == IF pod_id \in PodIds THEN pods[pod_id] ELSE 0

\* ----------------------------------------------------------------- load_pod
\* run_pod and the describe request, pythonpods.py:832, 843, 736-746
LoadRun(p) ==
  /\ ld[p] = "idle"
  /\ \A q \in Procs : q < p => ld[q] # "idle"
  /\ proc' = [proc EXCEPT ![p] = "running"]
  /\ stdin' = [stdin EXCEPT ![p] = bencode_encode("describe", p)]
  /\ ld' = [ld EXCEPT ![p] = "describing"]
  /\ UNCHANGED << podobj, chans, stdout, processor, pods, loaded_namespaces,
                  sys_modules, sinks, removed, inv, ds, hist, nreplies,
                  port >>

\* The describe reply is read and the pod dict built; the processor thread
\* starts, pythonpods.py:747, 846-899
LoadDescribe(p, inputs) ==
  /\ ld[p] = "describing"
  /\ proc[p] = "running"
  /\ \E in \in inputs :
       podobj' = [podobj EXCEPT ![p] =
                    [pod_id |-> PodIdOf(p, in.reply),
                     format |-> FormatOf(in.reply), ops |-> in.reply.ops,
                     namespaces |-> in.reply.namespaces,
                     remove_ns |-> in.remove_ns, metadata |-> NoMetadata]]
  /\ processor' = [processor EXCEPT ![p] = "running"]
  /\ ld' = [ld EXCEPT ![p] = "started"]
  /\ UNCHANGED << proc, chans, stdin, stdout, pods, loaded_namespaces,
                  sys_modules, sinks, removed, inv, ds, hist, nreplies,
                  port >>

\* The child exited before it replied: read_message returns None and
\* describe_to_metadata(None) raises, pythonpods.py:747, 760
LoadDescribeEOF(p) ==
  /\ ld[p] = "describing"
  /\ proc[p] = "exited"
  /\ ld' = [ld EXCEPT ![p] = "raised"]
  /\ UNCHANGED << proc, podobj, chans, stdin, stdout, processor, pods,
                  loaded_namespaces, sys_modules, sinks, removed, inv, ds, hist,
                  nreplies, port >>

\* pods[pod_id] = pod, pythonpods.py:908
LoadRegister(p) ==
  /\ ld[p] = "started"
  /\ pods' = [pods EXCEPT ![podobj[p].pod_id] = p]
  /\ ld' = [ld EXCEPT ![p] = "registered"]
  /\ UNCHANGED << proc, podobj, chans, stdin, stdout, processor,
                  loaded_namespaces, sys_modules, sinks, removed, inv, ds, hist,
                  nreplies, port >>

\* The names of the namespaces of pod p that are not deferred
NonDeferred(p) ==
  { podobj[p].namespaces[k].name :
      k \in { j \in 1..Len(podobj[p].namespaces) : ~podobj[p].namespaces[j].defer } }
AllNamespaces(p) ==
  { podobj[p].namespaces[k].name : k \in 1..Len(podobj[p].namespaces) }

\* The namespace dict of pod dict `pod` whose name is n
NamespaceOf(pod, n) ==
  pod.namespaces[CHOOSE k \in 1..Len(pod.namespaces) : pod.namespaces[k].name = n]

\* expose_namespace_as_module(pod, namespace), pythonpods.py:81-119: the
\* module table afterwards; the module gets the functions of namespace["vars"]
expose_namespace_as_module(mods, pod_id, namespace) ==
  [mods EXCEPT ![namespace_to_module_name(namespace.name)] =
     [ns |-> namespace.name, pod_id |-> pod_id, vars |-> namespace.vars]]

\* expose_namespace_as_module for each name of `names`, pythonpods.py:81-119
ExposeModules(mods, pod, names) ==
  [m \in ModuleNames |->
     IF \E n \in names : namespace_to_module_name(n) = m
     THEN LET n == CHOOSE n \in names : namespace_to_module_name(n) = m
          IN  expose_namespace_as_module(mods, pod.pod_id, NamespaceOf(pod, n))[m]
     ELSE mods[m]]

\* expose_non_deferred_namespaces, pythonpods.py:121-131, and the return
LoadExpose(p) ==
  /\ ld[p] = "registered"
  /\ sys_modules' = ExposeModules(sys_modules, podobj[p], NonDeferred(p))
  /\ loaded_namespaces' =
       IF NonDeferred(p) = {} THEN loaded_namespaces
       ELSE [loaded_namespaces EXCEPT ![podobj[p].pod_id] = @ \cup NonDeferred(p)]
  /\ ld' = [ld EXCEPT ![p] = "done"]
  /\ UNCHANGED << proc, podobj, chans, stdin, stdout, processor, pods, sinks,
                  removed, inv, ds, hist, nreplies, port >>

\* ------------------------------------------------------------------- invoke
\* A caller can reach pod p: through the registry or the modules once
\* load_pod stored it, through the returned pod dict afterwards.
Published(p) == ld[p] \in {"registered", "done"}

\* An invoke that writes its request and has not registered its waiter yet
InvokeCallWritesFirst(i, p, chan) ==
  /\ chan \in {NewFuture, NewHandlers}
  /\ inv[i].pc = "idle"
  /\ \A j \in Ids : j < i => inv[j].pc # "idle"
  /\ Published(p)
  /\ proc[p] = "running"
  /\ stdin' = [stdin EXCEPT ![p] = @ \o bencode_encode("invoke", i)]
  /\ inv' = [inv EXCEPT ![i] =
               [pc |-> "written", pod |-> p, towrite |-> << >>,
                op |-> "invoke", ns |-> "", k |-> 0, pod_id |-> NoneId]]
  /\ UNCHANGED << proc, podobj, chans, stdout, processor, pods,
                  loaded_namespaces, sys_modules, sinks, removed, ld, ds, hist,
                  nreplies, port >>

\* msg_id = next_id(); chans[msg_id] = chan; message = {...},
\* pythonpods.py:362-376.  The fresh id of the i-th invoke is i.
InvokeCall(i, p, chan) ==
  /\ chan \in {NewFuture, NewHandlers}
  /\ inv[i].pc = "idle"
  /\ \A j \in Ids : j < i => inv[j].pc # "idle"
  /\ Published(p)
  /\ chans' = [chans EXCEPT ![p] =
                 [x \in DOMAIN @ \cup {i} |-> IF x = i THEN chan ELSE @[x]]]
  /\ inv' = [inv EXCEPT ![i] =
               [pc |-> "registered", pod |-> p,
                towrite |-> bencode_encode("invoke", i),
                op |-> "invoke", ns |-> "", k |-> 0, pod_id |-> NoneId]]
  /\ UNCHANGED << proc, podobj, stdin, stdout, processor, pods,
                  loaded_namespaces, sys_modules, sinks, removed, ld, ds, hist,
                  nreplies, port >>

\* write_message(stream, message), pythonpods.py:297-301, 378: one
\* stream.write call; on the pipe of a child that exited, BrokenPipeError.
InvokeWrite(i) ==
  LET p == inv[i].pod
      n == WriteLen(inv[i].towrite)
      rest == SubSeq(inv[i].towrite, n + 1, Len(inv[i].towrite))
  IN  /\ inv[i].pc = "registered"
      /\ IF proc[p] # "running"
         THEN /\ inv' = [inv EXCEPT ![i].pc = "raised", ![i].towrite = << >>]
              /\ stdin' = stdin
         ELSE /\ stdin' = [stdin EXCEPT ![p] = @ \o SubSeq(inv[i].towrite, 1, n)]
              /\ inv' = [inv EXCEPT
                           ![i].towrite = rest,
                           ![i].pc = IF rest # << >> THEN "registered"
                                     ELSE IF chans[p][i].kind = "future"
                                          THEN "waiting" ELSE "returned"]
      /\ UNCHANGED << proc, podobj, chans, stdout, processor, pods,
                      loaded_namespaces, sys_modules, sinks, removed, ld, ds,
                      hist, nreplies, port >>

\* An invoke that reads its reply from the pod's stream itself
InvokeResultReads(i) ==
  /\ inv[i].pc = "waiting"
  /\ inv[i].op = "invoke"
  /\ stdout[inv[i].pod] # << >>
  /\ stdout' = [stdout EXCEPT ![inv[i].pod] = Tail(@)]
  /\ inv' = [inv EXCEPT ![i].pc = "returned"]
  /\ UNCHANGED << proc, podobj, chans, stdin, processor, pods,
                  loaded_namespaces, sys_modules, sinks, removed, ld, ds, hist,
                  nreplies, port >>

\* result = chan.result(), pythonpods.py:380-384: blocks until the future is
\* done, then returns its result or raises its exception
InvokeResult(i) ==
  /\ inv[i].pc = "waiting"
  /\ inv[i].op = "invoke"
  /\ FutureDone(chans[inv[i].pod][i])
  /\ inv' = [inv EXCEPT ![i].pc =
               IF chans[inv[i].pod][i].state = "exception"
               THEN "raised" ELSE "returned"]
  /\ UNCHANGED << proc, podobj, chans, stdin, stdout, processor, pods,
                  loaded_namespaces, sys_modules, sinks, removed, ld, ds, hist,
                  nreplies, port >>

\* ------------------------------------------------------------------ load_ns
\* load_ns_impl(pod, namespace), pythonpods.py:914-926: a future is
\* registered under a fresh id and the load-ns request is built.
LoadNsCall(i, p, ns) ==
  /\ inv[i].pc = "idle"
  /\ \A j \in Ids : j < i => inv[j].pc # "idle"
  /\ Published(p)
  /\ chans' = [chans EXCEPT ![p] =
                 [x \in DOMAIN @ \cup {i} |-> IF x = i THEN NewFuture ELSE @[x]]]
  /\ inv' = [inv EXCEPT ![i] =
               [pc |-> "registered", pod |-> p,
                towrite |-> bencode_encode_load_ns(ns, i),
                op |-> "load-ns", ns |-> ns, k |-> 0, pod_id |-> NoneId]]
  /\ UNCHANGED << proc, podobj, stdin, stdout, processor, pods,
                  loaded_namespaces, sys_modules, sinks, removed, ld, ds, hist,
                  nreplies, port >>

\* The deferred namespace of pod p that load_ns finds for `ns` and that is
\* not yet tracked as loaded, pythonpods.py:942-946 (0: none)
DeferredToLoad(p, ns) ==
  LET ks == { k \in 1..Len(podobj[p].namespaces) :
                /\ podobj[p].namespaces[k].name = ns
                /\ podobj[p].namespaces[k].defer
                /\ ns \notin loaded_namespaces[podobj[p].pod_id] }
  IN  IF ks = {} THEN 0 ELSE CHOOSE k \in ks : \A j \in ks : k <= j

\* chan.result() returns or raises, pythonpods.py:931, and load_ns looks for
\* the deferred namespace and updates it with the result, pythonpods.py:942-950
LoadNsResult(i) ==
  LET p == inv[i].pod
      result == chans[p][i].val
      k == DeferredToLoad(p, inv[i].ns)
  IN  /\ inv[i].pc = "waiting"
      /\ inv[i].op = "load-ns"
      /\ FutureDone(chans[p][i])
      /\ IF chans[p][i].state = "exception"
         THEN /\ inv' = [inv EXCEPT ![i].pc = "raised"]
              /\ podobj' = podobj
         ELSE IF k = 0
         THEN /\ inv' = [inv EXCEPT ![i].pc = "returned"]
              /\ podobj' = podobj
         ELSE /\ inv' = [inv EXCEPT ![i].pc = "expose", ![i].k = k]
              /\ podobj' =
                   IF result.tag = "namespace"
                   THEN [podobj EXCEPT ![p].namespaces[k].name = result.name,
                                       ![p].namespaces[k].vars = result.n]
                   ELSE podobj
      /\ UNCHANGED << proc, chans, stdin, stdout, processor, pods,
                      loaded_namespaces, sys_modules, sinks, removed, ld, ds,
                      hist, nreplies, port >>

\* expose_namespace_as_module(pod, namespace), pythonpods.py:953, and the return
LoadNsExpose(i) ==
  LET p == inv[i].pod
      namespace == podobj[p].namespaces[inv[i].k]
  IN  /\ inv[i].pc = "expose"
      /\ sys_modules' =
           expose_namespace_as_module(sys_modules, podobj[p].pod_id, namespace)
      /\ loaded_namespaces' =
           [loaded_namespaces EXCEPT ![podobj[p].pod_id] = @ \cup {namespace.name}]
      /\ inv' = [inv EXCEPT ![i].pc = "returned"]
      /\ UNCHANGED << proc, podobj, chans, stdin, stdout, processor, pods,
                      sinks, removed, ld, ds, hist, nreplies, port >>

\* -------------------------------------------------------- the child process
\* The child answers a request it has read with one more reply envelope.
PodEmit(p, shapes, max) ==
  /\ proc[p] = "running"
  /\ nreplies < max
  /\ \E id \in RequestIds(stdin[p]), sh \in shapes :
       stdout' = [stdout EXCEPT ![p] = Append(@, ShapeReply(id, sh, nreplies + 1))]
  /\ nreplies' = nreplies + 1
  /\ UNCHANGED << proc, podobj, chans, stdin, processor, pods,
                  loaded_namespaces, sys_modules, sinks, removed, ld, inv, ds,
                  hist, port >>

\* The shapes of reply the children send in SpecEnv: values that decode or
\* do not, error replies with their "ex-message" and "ex-data" (decodable
\* or not), and replies that carry "out" / "err" text.
EnvShapes ==
  { [kind |-> "num", status |-> {}, out |-> FALSE, err |-> FALSE,
     ex_message |-> "", ex_data |-> "absent"],
    [kind |-> "num", status |-> {"done"}, out |-> TRUE, err |-> TRUE,
     ex_message |-> "", ex_data |-> "absent"],
    [kind |-> "garbage", status |-> {}, out |-> FALSE, err |-> FALSE,
     ex_message |-> "", ex_data |-> "absent"],
    [kind |-> "absent", status |-> {"error"}, out |-> FALSE, err |-> FALSE,
     ex_message |-> "boom", ex_data |-> "num"],
    [kind |-> "absent", status |-> {"error"}, out |-> FALSE, err |-> FALSE,
     ex_message |-> "", ex_data |-> "garbage"],
    [kind |-> "absent", status |-> {"done"}, out |-> TRUE, err |-> FALSE,
     ex_message |-> "", ex_data |-> "absent"] }

EnvReply(id, sh, n) ==
  [ShapeReply(id, sh, n) EXCEPT
     !.out = sh.out, !.err = sh.err, !.ex_message = sh.ex_message,
     !.ex_data = CASE sh.ex_data = "num" -> NumPayload(n)
                   [] sh.ex_data = "garbage" -> BadPayload
                   [] OTHER -> NoPayload]

\* The child writes one more reply envelope: for a request it has read, or
\* with an id no request carried (0).
PodEmitEnv(p, max) ==
  /\ proc[p] = "running"
  /\ processor[p] # "none"
  /\ nreplies < max
  /\ \E id \in RequestIds(stdin[p]) \cup {0}, sh \in EnvShapes :
       stdout' = [stdout EXCEPT ![p] = Append(@, EnvReply(id, sh, nreplies + 1))]
  /\ nreplies' = nreplies + 1
  /\ UNCHANGED << proc, podobj, chans, stdin, processor, pods,
                  loaded_namespaces, sys_modules, sinks, removed, ld, inv, ds,
                  hist, port >>

\* The replies a child sends to a load-ns request: the namespace with its
\* vars (with or without status done), a bare done, or an error.
NsReplyShapes == {"vars", "vars-done", "done", "error"}
NsReply(rq, sh, n) ==
  CASE sh = "vars" ->
         [Reply(rq.id, NoPayload, {}) EXCEPT !.vars = TRUE, !.name = rq.ns, !.nvars = n]
    [] sh = "vars-done" ->
         [Reply(rq.id, NoPayload, {"done"}) EXCEPT
            !.vars = TRUE, !.name = rq.ns, !.nvars = n]
    [] sh = "done" -> Reply(rq.id, NoPayload, {"done"})
    [] OTHER -> Reply(rq.id, NoPayload, {"error"})

\* The child answers a load-ns request it has read with one more reply.
PodEmitNs(p, max) ==
  /\ proc[p] = "running"
  /\ nreplies < max
  /\ \E rq \in LoadNsRequests(stdin[p]), sh \in NsReplyShapes :
       stdout' = [stdout EXCEPT ![p] = Append(@, NsReply(rq, sh, nreplies + 1))]
  /\ nreplies' = nreplies + 1
  /\ UNCHANGED << proc, podobj, chans, stdin, processor, pods,
                  loaded_namespaces, sys_modules, sinks, removed, ld, inv, ds,
                  hist, port >>

\* The child exits: it crashed, or it obeyed a shutdown request.
PodExit(p) ==
  /\ proc[p] = "running"
  /\ proc' = [proc EXCEPT ![p] = "exited"]
  /\ port' = [port EXCEPT ![p].listening = FALSE]
  /\ UNCHANGED << podobj, chans, stdin, stdout, processor, pods,
                  loaded_namespaces, sys_modules, sinks, removed, ld, inv, ds,
                  hist, nreplies >>

\* ---------------------------------------------------------------- processor
\* One turn of the loop of processor(pod), pythonpods.py:454-546, on the
\* next envelope of the stream.
Processor(p) ==
  /\ processor[p] = "running"
  /\ stdout[p] # << >>
  /\ LET reply == ReadMessage(stdout[p])
         r == ProcessReply(chans[p], reply)
     IN  /\ chans' = [chans EXCEPT ![p] = r.chans]
         /\ sinks' = sinks \o r.sink
         /\ processor' = [processor EXCEPT ![p] =
                            IF r.raised THEN "crashed" ELSE "running"]
         /\ hist' = [hist EXCEPT ![p] = Append(@, reply)]
  /\ stdout' = [stdout EXCEPT ![p] = Tail(@)]
  /\ UNCHANGED << proc, podobj, stdin, pods, loaded_namespaces, sys_modules,
                  removed, ld, inv, ds, nreplies, port >>

\* read_message returns None at end of stream and the loop breaks,
\* pythonpods.py:455-457
ProcessorEOF(p) ==
  /\ processor[p] = "running"
  /\ stdout[p] = << >>
  /\ proc[p] \in {"exited", "reaped"}
  /\ processor' = [processor EXCEPT ![p] = "stopped"]
  /\ UNCHANGED << proc, podobj, chans, stdin, stdout, pods, loaded_namespaces,
                  sys_modules, sinks, removed, ld, inv, ds, hist, nreplies,
                  port >>

\* ------------------------------------------------------------------ destroy
\* What a caller passes to destroy: a pod id string, or the pod dict that
\* load_pod returned.
DestroyArgs ==
  { [by |-> "id", key |-> podobj[p].pod_id, p |-> 0] : p \in { q \in Procs : Published(q) } }
    \cup { [by |-> "pod", key |-> NoneId, p |-> p] : p \in { q \in Procs : ld[q] = "done" } }

\* get_pod_id_from_spec, pythonpods.py:548-552: x.get("pod/id") of a dict
get_pod_id_from_spec(x) ==
  IF x.by = "pod"
  THEN IF "pod/id" \in PodKeys THEN podobj[x.p].pod_id ELSE NoneId
  ELSE x.key

\* The ids of the waiters of pod p that are not settled
Pending(p) == { i \in DOMAIN chans[p] : chans[p][i].nset = 0 }

\* pod_id = get_pod_id_from_spec(..); pod = lookup_pod(pod_id); if pod: ...,
\* pythonpods.py:576-579.  named and pending0 remember the pod the caller
\* named and its waiters that were pending when the call began.
DestroyCall(d, x) ==
  LET pod_id == get_pod_id_from_spec(x)
      pod == lookup_pod(pod_id)
      named == IF x.by = "pod" THEN x.p ELSE pod
  IN  /\ ds[d].pc = "idle"
      /\ \A e \in Destroys : e < d => ds[e].pc # "idle"
      /\ ds' = [ds EXCEPT ![d] =
                  [pc |-> IF pod # 0 THEN "unregister" ELSE "pop",
                   by |-> x.by, pod_id |-> pod_id, pod |-> pod,
                   towrite |-> << >>, named |-> named,
                   pending0 |-> IF named # 0 THEN Pending(named) ELSE {},
                   used |-> 0]]
      /\ UNCHANGED << proc, podobj, chans, stdin, stdout, processor, pods,
                      loaded_namespaces, sys_modules, sinks, removed, ld, inv,
                      hist, nreplies, port >>

\* unregister_pod_modules(pod_id), pythonpods.py:217-229
unregister_pod_modules(mods, pod_id) ==
  [m \in ModuleNames |-> IF mods[m].pod_id = pod_id THEN NoModule ELSE mods[m]]

\* pythonpods.py:581, and the shutdown message of destroy_pod, pythonpods.py:566
DestroyUnregister(d) ==
  /\ ds[d].pc = "unregister"
  /\ sys_modules' = unregister_pod_modules(sys_modules, ds[d].pod_id)
  /\ loaded_namespaces' = [loaded_namespaces EXCEPT ![ds[d].pod_id] = {}]
  /\ ds' = [ds EXCEPT ![d].pc = "shutdown",
                      ![d].towrite = IF "shutdown" \in podobj[ds[d].pod].ops
                                     THEN bencode_encode("shutdown", d)
                                     ELSE << >>]
  /\ UNCHANGED << proc, podobj, chans, stdin, stdout, processor, pods, sinks,
                  removed, ld, inv, hist, nreplies, port >>

\* destroy_pod(pod), pythonpods.py:558-572: the shutdown request is written,
\* or the write fails and the process is terminated, or the pod has no
\* shutdown op and the process is terminated
DestroyPod(d) ==
  LET p == ds[d].pod
      n == WriteLen(ds[d].towrite)
      rest == SubSeq(ds[d].towrite, n + 1, Len(ds[d].towrite))
  IN  /\ ds[d].pc = "shutdown"
      /\ IF "shutdown" \in podobj[p].ops /\ proc[p] = "running"
         THEN /\ stdin' = [stdin EXCEPT ![p] = @ \o SubSeq(ds[d].towrite, 1, n)]
              /\ ds' = [ds EXCEPT ![d].towrite = rest,
                                  ![d].pc = IF rest # << >> THEN "shutdown" ELSE "wait"]
              /\ proc' = proc
         ELSE /\ stdin' = stdin
              /\ ds' = [ds EXCEPT ![d].towrite = << >>, ![d].pc = "remove_ns"]
              /\ proc' = [proc EXCEPT ![p] = "exited"]
      /\ UNCHANGED << podobj, chans, stdout, processor, pods, loaded_namespaces,
                      sys_modules, sinks, removed, ld, inv, hist, nreplies,
                      port >>

\* process.wait(timeout=5) returns: the child has exited and is now reaped,
\* pythonpods.py:568
DestroyWait(d) ==
  /\ ds[d].pc = "wait"
  /\ proc[ds[d].pod] \in {"exited", "reaped"}
  /\ proc' = [proc EXCEPT ![ds[d].pod] = "reaped"]
  /\ ds' = [ds EXCEPT ![d].pc = "remove_ns"]
  /\ UNCHANGED << podobj, chans, stdin, stdout, processor, pods,
                  loaded_namespaces, sys_modules, sinks, removed, ld, inv, hist,
                  nreplies, port >>

\* process.wait(timeout=5) times out and the process is terminated,
\* pythonpods.py:568-570
DestroyTimeout(d) ==
  /\ ds[d].pc = "wait"
  /\ proc[ds[d].pod] = "running"
  /\ proc' = [proc EXCEPT ![ds[d].pod] = "exited"]
  /\ ds' = [ds EXCEPT ![d].pc = "remove_ns"]
  /\ UNCHANGED << podobj, chans, stdin, stdout, processor, pods,
                  loaded_namespaces, sys_modules, sinks, removed, ld, inv, hist,
                  nreplies, port >>

\* The remove_ns hook is called with each namespace name, pythonpods.py:585-589
RemoveNsCalls(p) ==
  IF podobj[p].remove_ns
  THEN [k \in 1..Len(podobj[p].namespaces) |-> << p, podobj[p].namespaces[k].name >>]
  ELSE << >>

DestroyRemoveNs(d) ==
  /\ ds[d].pc = "remove_ns"
  /\ removed' = removed \o RemoveNsCalls(ds[d].pod)
  /\ ds' = [ds EXCEPT ![d].pc = "pop"]
  /\ UNCHANGED << proc, podobj, chans, stdin, stdout, processor, pods,
                  loaded_namespaces, sys_modules, sinks, ld, inv, hist, nreplies,
                  port >>

\* pods.pop(pod_id) without the default: KeyError for an absent key
RegistryPopNoDefault(reg, pod_id) ==
  IF pod_id \in PodIds /\ reg[pod_id] # 0
  THEN [reg |-> [reg EXCEPT ![pod_id] = 0], raised |-> FALSE]
  ELSE [reg |-> reg, raised |-> TRUE]

\* pods.pop(pod_id, None), pythonpods.py:591
RegistryPop(reg, pod_id) ==
  [reg |-> IF pod_id \in PodIds THEN [reg EXCEPT ![pod_id] = 0] ELSE reg,
   raised |-> FALSE]

\* pythonpods.py:591-592
DestroyPop(d) ==
  /\ ds[d].pc = "pop"
  /\ pods' = RegistryPop(pods, ds[d].pod_id).reg
  /\ ds' = [ds EXCEPT ![d].pc =
              IF RegistryPop(pods, ds[d].pod_id).raised THEN "raised" ELSE "done"]
  /\ UNCHANGED << proc, podobj, chans, stdin, stdout, processor,
                  loaded_namespaces, sys_modules, sinks, removed, ld, inv, hist,
                  nreplies, port >>

\* ------------------------------------------------------------ specification
\* Spec: the calls multiplexed over one pod whose child stays alive.
MuxInputs == { [reply |-> DescribeA, remove_ns |-> TRUE] }

Next ==
  \/ \E p \in 1..MuxPods : LoadRun(p)
  \/ \E p \in 1..MuxPods : LoadDescribe(p, MuxInputs)
  \/ \E p \in 1..MuxPods : LoadRegister(p)
  \/ \E p \in 1..MuxPods : LoadExpose(p)
  \/ \E i \in Ids, p \in 1..MuxPods, chan \in {NewFuture, NewHandlers} :
       InvokeCall(i, p, chan)
  \/ \E i \in Ids : InvokeWrite(i)
  \/ \E i \in Ids : InvokeResult(i)
  \/ \E p \in 1..MuxPods : PodEmit(p, ReplyShapes, MaxReplies)
  \/ \E p \in 1..MuxPods : Processor(p)

Spec == Init /\ [][Next]_vars

\* SpecLife: several pods loaded and destroyed, with children that may exit
\* and that leave a synchronous invoke unanswered.
LifeInputs ==
  { [reply |-> DescribeA, remove_ns |-> TRUE],
    [reply |-> DescribeB, remove_ns |-> FALSE] }

NextLife ==
  \/ \E p \in Procs : LoadRun(p)
  \/ \E p \in Procs : LoadDescribe(p, LifeInputs)
  \/ \E p \in Procs : LoadDescribeEOF(p)
  \/ \E p \in Procs : LoadRegister(p)
  \/ \E p \in Procs : LoadExpose(p)
  \/ \E i \in 1..LifeIds, p \in Procs : InvokeCall(i, p, NewFuture)
  \/ \E i \in 1..LifeIds : InvokeWrite(i)
  \/ \E p \in Procs : PodExit(p)
  \/ \E p \in Procs : ProcessorEOF(p)
  \/ \E d \in Destroys : \E x \in DestroyArgs : DestroyCall(d, x)
  \/ \E d \in Destroys : DestroyUnregister(d)
  \/ \E d \in Destroys : DestroyPod(d)
  \/ \E d \in Destroys : DestroyWait(d)
  \/ \E d \in Destroys : DestroyTimeout(d)
  \/ \E d \in Destroys : DestroyRemoveNs(d)
  \/ \E d \in Destroys : DestroyPop(d)

SpecLife == Init /\ [][NextLife]_vars

\* SpecEnv: the replies of one pod that carry errors, undecodable values,
\* out / err text and unknown ids.
NextEnv ==
  \/ \E p \in 1..MuxPods : LoadRun(p)
  \/ \E p \in 1..MuxPods : LoadDescribe(p, MuxInputs)
  \/ \E p \in 1..MuxPods : LoadRegister(p)
  \/ \E p \in 1..MuxPods : LoadExpose(p)
  \/ \E i \in Ids, p \in 1..MuxPods, chan \in {NewFuture, NewHandlers} :
       InvokeCall(i, p, chan)
  \/ \E i \in Ids : InvokeWrite(i)
  \/ \E i \in Ids : InvokeResult(i)
  \/ \E p \in 1..MuxPods : PodEmitEnv(p, MaxReplies)
  \/ \E p \in 1..MuxPods : Processor(p)

SpecEnv == Init /\ [][NextEnv]_vars

\* SpecNs: one pod whose namespaces are loaded on demand by load_ns calls.
NextNs ==
  \/ \E p \in 1..MuxPods : LoadRun(p)
  \/ \E p \in 1..MuxPods : LoadDescribe(p, LifeInputs)
  \/ \E p \in 1..MuxPods : LoadRegister(p)
  \/ \E p \in 1..MuxPods : LoadExpose(p)
  \/ \E i \in Ids, p \in 1..MuxPods : \E ns \in AllNamespaces(p) : LoadNsCall(i, p, ns)
  \/ \E i \in Ids : InvokeWrite(i)
  \/ \E i \in Ids : LoadNsResult(i)
  \/ \E i \in Ids : LoadNsExpose(i)
  \/ \E p \in 1..MuxPods : PodEmitNs(p, MaxReplies)
  \/ \E p \in 1..MuxPods : Processor(p)

SpecNs == Init /\ [][NextNs]_vars

\* load_ns on every pod that load_pod can launch from the same program, the
\* child answering each load-ns request at most once
NextNsPair ==
  \/ \E p \in Procs : LoadRun(p)
  \/ \E p \in Procs : LoadDescribe(p, MuxInputs)
  \/ \E p \in Procs : LoadRegister(p)
  \/ \E p \in Procs : LoadExpose(p)
  \/ \E i \in Ids, p \in Procs : \E ns \in AllNamespaces(p) : LoadNsCall(i, p, ns)
  \/ \E i \in Ids : InvokeWrite(i)
  \/ \E i \in Ids : LoadNsResult(i)
  \/ \E i \in Ids : LoadNsExpose(i)
  \/ \E p \in Procs : PodEmitNs(p, MaxIds)
  \/ \E p \in Procs : Processor(p)

SpecNsPair == Init /\ [][NextNsPair]_vars

\* ------------------------------------- unregister_pod_modules, step by step
\* len(sys.modules), as far as pod modules change it
ModulesUsed == Cardinality({ m \in ModuleNames : sys_modules[m] # NoModule })

\* for module_name, module in sys.modules.items(): the iterator is created
\* and remembers the size of the dict, pythonpods.py:220
DestroyScanBegin(d) ==
  /\ ds[d].pc = "unregister"
  /\ ds' = [ds EXCEPT ![d].pc = "scanning", ![d].used = ModulesUsed]
  /\ UNCHANGED << proc, podobj, chans, stdin, stdout, processor, pods,
                  loaded_namespaces, sys_modules, sinks, removed, ld, inv, hist,
                  nreplies, port >>

\* The iterator is advanced to its end, pythonpods.py:220-222: "RuntimeError:
\* dictionary changed size during iteration" leaves destroy if a module was
\* registered meanwhile; otherwise the pod's modules and its tracking entry
\* are deleted (224-229) and destroy goes on to destroy_pod (583).
DestroyScanEnd(d) ==
  /\ ds[d].pc = "scanning"
  /\ IF ModulesUsed # ds[d].used
     THEN /\ ds' = [ds EXCEPT ![d].pc = "raised"]
          /\ UNCHANGED << sys_modules, loaded_namespaces >>
     ELSE /\ sys_modules' = unregister_pod_modules(sys_modules, ds[d].pod_id)
          /\ loaded_namespaces' = [loaded_namespaces EXCEPT ![ds[d].pod_id] = {}]
          /\ ds' = [ds EXCEPT ![d].pc = "shutdown",
                              ![d].towrite = IF "shutdown" \in podobj[ds[d].pod].ops
                                             THEN bencode_encode("shutdown", d)
                                             ELSE << >>]
  /\ UNCHANGED << proc, podobj, chans, stdin, stdout, processor, pods, sinks,
                  removed, ld, inv, hist, nreplies, port >>

\* destroy(pod_id) of a pod whose load_pod call has returned
DestroyArgsLoaded ==
  { [by |-> "id", key |-> podobj[p].pod_id, p |-> 0] : p \in { q \in Procs : ld[q] = "done" } }

\* load_pod and destroy running side by side on the registry and the module
\* table
NextRace ==
  \/ \E p \in Procs : LoadRun(p)
  \/ \E p \in Procs : LoadDescribe(p, LifeInputs)
  \/ \E p \in Procs : LoadRegister(p)
  \/ \E p \in Procs : LoadExpose(p)
  \/ \E p \in Procs : PodExit(p)
  \/ \E d \in Destroys : \E x \in DestroyArgsLoaded : DestroyCall(d, x)
  \/ \E d \in Destroys : DestroyScanBegin(d)
  \/ \E d \in Destroys : DestroyScanEnd(d)
  \/ \E d \in Destroys : DestroyPod(d)
  \/ \E d \in Destroys : DestroyWait(d)
  \/ \E d \in Destroys : DestroyTimeout(d)
  \/ \E d \in Destroys : DestroyRemoveNs(d)
  \/ \E d \in Destroys : DestroyPop(d)

SpecRace == Init /\ [][NextRace]_vars

\* ------------------------------------------------- handlers that call invoke
\* A handler set whose success handler makes a synchronous invoke on pod q.
\* The processor calls handlers on its own thread, pythonpods.py:532-536.
SyncHandlers(q) ==
  [kind |-> "reentrant", state |-> "pending", val |-> PyNone, calls |-> <<>>,
   nset |-> 0, target |-> q]

\* invoke(pod, var, args, {"handlers": ...}) with such a handler set,
\* pythonpods.py:362-378
InvokeCallSync(i, p, q) ==
  /\ inv[i].pc = "idle"
  /\ \A j \in Ids : j < i => inv[j].pc # "idle"
  /\ Published(p)
  /\ Published(q)
  /\ chans' = [chans EXCEPT ![p] =
                 [x \in DOMAIN @ \cup {i} |-> IF x = i THEN SyncHandlers(q) ELSE @[x]]]
  /\ inv' = [inv EXCEPT ![i] =
               [pc |-> "registered", pod |-> p,
                towrite |-> bencode_encode("invoke", i),
                op |-> "invoke", ns |-> "", k |-> 0, pod_id |-> NoneId]]
  /\ UNCHANGED << proc, podobj, stdin, stdout, processor, pods,
                  loaded_namespaces, sys_modules, sinks, removed, ld, ds, hist,
                  nreplies, port >>

\* The next reply of pod p makes the processor call a success handler that
\* invokes, pythonpods.py:524, 532-534
CallsBack(p) ==
  /\ stdout[p] # << >>
  /\ LET reply == ReadMessage(stdout[p])
     IN  /\ reply.id \in DOMAIN chans[p]
         /\ chans[p][reply.id].kind = "reentrant"
         /\ ~ReplyError(reply)
         /\ reply.value.enc # "absent" \/ reply.vars

\* The processor reads that reply, forwards out / err and calls
\* success_handler(value) (pythonpods.py:453-534); the handler, on the
\* processor's thread, registers a future under a fresh id j on its target
\* pod (362-369) and goes on to write the request and to block in
\* chan.result() (378-381).  inv[j].k names the pod whose processor runs it.
ProcessorCallback(p) ==
  /\ processor[p] = "running"
  /\ CallsBack(p)
  /\ LET reply == ReadMessage(stdout[p])
         w == chans[p][reply.id]
         q == w.target
         called == [chans EXCEPT ![p][reply.id] =
                      CallSuccess(w, ReplyDecode(reply).value)]
     IN  \E j \in Ids :
           /\ inv[j].pc = "idle"
           /\ \A x \in Ids : x < j => inv[x].pc # "idle"
           /\ chans' = [called EXCEPT ![q] =
                          [x \in DOMAIN @ \cup {j} |-> IF x = j THEN NewFuture ELSE @[x]]]
           /\ inv' = [inv EXCEPT ![j] =
                        [pc |-> "registered", pod |-> q,
                         towrite |-> bencode_encode("invoke", j),
                         op |-> "invoke", ns |-> "", k |-> p,
                         pod_id |-> NoneId]]
           /\ sinks' = sinks \o Forwarded(reply)
           /\ hist' = [hist EXCEPT ![p] = Append(@, reply)]
  /\ processor' = [processor EXCEPT ![p] = "blocked"]
  /\ stdout' = [stdout EXCEPT ![p] = Tail(@)]
  /\ UNCHANGED << proc, podobj, stdin, pods, loaded_namespaces, sys_modules,
                  removed, ld, ds, nreplies, port >>

\* The invoke made by the handler has returned or raised (pythonpods.py:
\* 381-384): the handler returns and the processor goes on with the done
\* branch of the same reply (538-543), or the exception leaves the loop (545).
ProcessorReturn(p) ==
  /\ processor[p] = "blocked"
  /\ \E j \in Ids :
       /\ inv[j].k = p /\ inv[j].op = "invoke"
       /\ inv[j].pc \in {"returned", "raised"}
       /\ inv' = [inv EXCEPT ![j].k = 0]
       /\ LET reply == hist[p][Len(hist[p])]
          IN  IF inv[j].pc = "raised"
              THEN /\ processor' = [processor EXCEPT ![p] = "crashed"]
                   /\ chans' = chans
              ELSE /\ processor' = [processor EXCEPT ![p] = "running"]
                   /\ chans' = [chans EXCEPT ![p][reply.id] = DeliverDone(@, reply)]
  /\ UNCHANGED << proc, podobj, stdin, stdout, pods, loaded_namespaces,
                  sys_modules, sinks, removed, ld, ds, hist, nreplies,
                  port >>

\* Two pods, invokes whose handlers invoke again, replies with values
CbShapes ==
  { [kind |-> "num", status |-> {}], [kind |-> "num", status |-> {"done"}],
    [kind |-> "absent", status |-> {"error"}] }

NextCb ==
  \/ \E p \in Procs : LoadRun(p)
  \/ \E p \in Procs : LoadDescribe(p, MuxInputs)
  \/ \E p \in Procs : LoadRegister(p)
  \/ \E p \in Procs : LoadExpose(p)
  \/ \E i \in Ids, p \in Procs, q \in Procs : InvokeCallSync(i, p, q)
  \/ \E i \in Ids : InvokeWrite(i)
  \/ \E i \in Ids : InvokeResult(i)
  \/ \E p \in Procs : PodEmit(p, CbShapes, MaxReplies)
  \/ \E p \in Procs : ~CallsBack(p) /\ Processor(p)
  \/ \E p \in Procs : ProcessorCallback(p)
  \/ \E p \in Procs : ProcessorReturn(p)

SpecCb == Init /\ [][NextCb]_vars

\* Every kind of call on one pod: load_pod, invoke, load_ns and destroy, with
\* the child answering, exiting, and the processor reading to end of stream
NextCalls ==
  \/ \E p \in 1..MuxPods : LoadRun(p)
  \/ \E p \in 1..MuxPods : LoadDescribe(p, MuxInputs)
  \/ \E p \in 1..MuxPods : LoadRegister(p)
  \/ \E p \in 1..MuxPods : LoadExpose(p)
  \/ \E i \in Ids, p \in 1..MuxPods : InvokeCall(i, p, NewFuture)
  \/ \E i \in Ids, p \in 1..MuxPods : \E ns \in AllNamespaces(p) : LoadNsCall(i, p, ns)
  \/ \E i \in Ids : InvokeWrite(i)
  \/ \E i \in Ids : InvokeResult(i)
  \/ \E i \in Ids : LoadNsResult(i)
  \/ \E i \in Ids : LoadNsExpose(i)
  \/ \E p \in 1..MuxPods : PodEmit(p, CbShapes, LifeIds)
  \/ \E p \in 1..MuxPods : PodEmitNs(p, LifeIds)
  \/ \E p \in 1..MuxPods : PodExit(p)
  \/ \E p \in 1..MuxPods : Processor(p)
  \/ \E p \in 1..MuxPods : ProcessorEOF(p)
  \/ \E d \in 1..LifeIds : \E x \in DestroyArgs : DestroyCall(d, x)
  \/ \E d \in 1..LifeIds : DestroyUnregister(d)
  \/ \E d \in 1..LifeIds : DestroyPod(d)
  \/ \E d \in 1..LifeIds : DestroyWait(d)
  \/ \E d \in 1..LifeIds : DestroyTimeout(d)
  \/ \E d \in 1..LifeIds : DestroyRemoveNs(d)
  \/ \E d \in 1..LifeIds : DestroyPop(d)

SpecCalls == Init /\ [][NextCalls]_vars

\* --------------------------------------------------------- socket transport

\* What the port file of a child can hold: nothing parseable yet, or the
\* port number.
PortContents == {"garbage", "port"}

\* run_pod with transport "socket": the child is started and read_port begins
\* to poll its port file.
LoadRunSocket(p) ==
  /\ ld[p] = "idle"
  /\ \A q \in Procs : q < p => ld[q] # "idle"
  /\ proc' = [proc EXCEPT ![p] = "running"]
  /\ ld' = [ld EXCEPT ![p] = "polling"]
  /\ UNCHANGED << podobj, chans, stdin, stdout, processor, pods,
                  loaded_namespaces, sys_modules, sinks, removed, inv, ds,
                  hist, nreplies, port >>

\* The child writes its port file, in one piece or not.
PodWritePort(p, c) ==
  /\ proc[p] = "running"
  /\ port[p].file # "port"
  /\ port' = [port EXCEPT ![p].file = c]
  /\ UNCHANGED << proc, podobj, chans, stdin, stdout, processor, pods,
                  loaded_namespaces, sys_modules, sinks, removed, ld, inv, ds,
                  hist, nreplies >>

\* The child starts to accept connections.
PodListen(p) ==
  /\ proc[p] = "running"
  /\ ~port[p].listening
  /\ port' = [port EXCEPT ![p].listening = TRUE]
  /\ UNCHANGED << proc, podobj, chans, stdin, stdout, processor, pods,
                  loaded_namespaces, sys_modules, sinks, removed, ld, inv, ds,
                  hist, nreplies >>

\* One iteration of read_port's loop: return the port when the file holds
\* an integer, sleep otherwise.
ReadPortPoll(p) ==
  /\ ld[p] = "polling"
  /\ ld' = [ld EXCEPT ![p] = IF port[p].file = "port" THEN "connecting"
                                                      ELSE "port_sleep"]
  /\ UNCHANGED << proc, podobj, chans, stdin, stdout, processor, pods,
                  loaded_namespaces, sys_modules, sinks, removed, inv, ds,
                  hist, nreplies, port >>

\* The sleep of read_port ends and the loop goes round.
ReadPortRetry(p) ==
  /\ ld[p] = "port_sleep"
  /\ ld' = [ld EXCEPT ![p] = "polling"]
  /\ UNCHANGED << proc, podobj, chans, stdin, stdout, processor, pods,
                  loaded_namespaces, sys_modules, sinks, removed, inv, ds,
                  hist, nreplies, port >>

\* One iteration of run_pod's connect loop: on a connection the streams are
\* the socket's and load_pod goes on to the handshake, on
\* ConnectionRefusedError it sleeps.
Connect(p) ==
  /\ ld[p] = "connecting"
  /\ IF port[p].listening
       THEN /\ stdin' = [stdin EXCEPT ![p] = bencode_encode("describe", p)]
            /\ ld' = [ld EXCEPT ![p] = "describing"]
       ELSE /\ ld' = [ld EXCEPT ![p] = "connect_sleep"]
            /\ UNCHANGED stdin
  /\ UNCHANGED << proc, podobj, chans, stdout, processor, pods,
                  loaded_namespaces, sys_modules, sinks, removed, inv, ds,
                  hist, nreplies, port >>

\* The sleep of the connect loop ends and the loop goes round.
ConnectRetry(p) ==
  /\ ld[p] = "connect_sleep"
  /\ ld' = [ld EXCEPT ![p] = "connecting"]
  /\ UNCHANGED << proc, podobj, chans, stdin, stdout, processor, pods,
                  loaded_namespaces, sys_modules, sinks, removed, inv, ds,
                  hist, nreplies, port >>

NextSock ==
  \/ \E p \in Procs : LoadRunSocket(p)
  \/ \E p \in Procs : \E c \in PortContents : PodWritePort(p, c)
  \/ \E p \in Procs : PodListen(p)
  \/ \E p \in Procs : PodExit(p)
  \/ \E p \in Procs : ReadPortPoll(p)
  \/ \E p \in Procs : ReadPortRetry(p)
  \/ \E p \in Procs : Connect(p)
  \/ \E p \in Procs : ConnectRetry(p)
  \/ \E p \in Procs : LoadDescribe(p, LifeInputs)
  \/ \E p \in Procs : LoadDescribeEOF(p)
  \/ \E p \in Procs : LoadRegister(p)
  \/ \E p \in Procs : LoadExpose(p)

SpecSock == Init /\ [][NextSock]_vars

\* ------------------------------------------------ load_pod with metadata
\* load_pod calls that give the metadata option: the pre-captured describe
\* reply, and whether a remove_ns hook is given.
MetaInputs ==
  { [metadata |-> DescribeB, remove_ns |-> FALSE],
    [metadata |-> DescribeNone, remove_ns |-> TRUE] }

\* A load_pod that would send describe although it has the metadata.
LoadMetadataDescribes(p, inputs) ==
  /\ ld[p] = "idle"
  /\ \A q \in Procs : q < p => ld[q] # "idle"
  /\ proc' = [proc EXCEPT ![p] = "running"]
  /\ stdin' = [stdin EXCEPT ![p] = bencode_encode("describe", p)]
  /\ \E in \in inputs :
       podobj' = [podobj EXCEPT ![p] =
                    [pod_id |-> PodIdOf(p, in.metadata),
                     format |-> FormatOf(in.metadata), ops |-> in.metadata.ops,
                     namespaces |-> in.metadata.namespaces,
                     remove_ns |-> in.remove_ns,
                     metadata |-> << in.metadata >>]]
  /\ processor' = [processor EXCEPT ![p] = "running"]
  /\ ld' = [ld EXCEPT ![p] = "started"]
  /\ UNCHANGED << chans, stdout, pods, loaded_namespaces, sys_modules, sinks,
                  removed, inv, ds, hist, nreplies, port >>

\* load_pod with opts["metadata"]: run_pod, then the pod dict is built from
\* the supplied reply and the processor thread starts, pythonpods.py:832-899;
\* describe_pod is not called.
LoadMetadata(p, inputs) ==
  /\ ld[p] = "idle"
  /\ \A q \in Procs : q < p => ld[q] # "idle"
  /\ proc' = [proc EXCEPT ![p] = "running"]
  /\ \E in \in inputs :
       podobj' = [podobj EXCEPT ![p] =
                    [pod_id |-> PodIdOf(p, in.metadata),
                     format |-> FormatOf(in.metadata), ops |-> in.metadata.ops,
                     namespaces |-> in.metadata.namespaces,
                     remove_ns |-> in.remove_ns,
                     metadata |-> << in.metadata >>]]
  /\ processor' = [processor EXCEPT ![p] = "running"]
  /\ ld' = [ld EXCEPT ![p] = "started"]
  /\ UNCHANGED << chans, stdin, stdout, pods, loaded_namespaces, sys_modules,
                  sinks, removed, inv, ds, hist, nreplies, port >>

NextMeta ==
  \/ \E p \in Procs : LoadMetadata(p, MetaInputs)
  \/ \E p \in Procs : LoadRun(p)
  \/ \E p \in Procs : LoadDescribe(p, MuxInputs)
  \/ \E p \in Procs : LoadRegister(p)
  \/ \E p \in Procs : LoadExpose(p)
  \/ \E i \in 1..LifeIds, p \in Procs : InvokeCall(i, p, NewFuture)
  \/ \E i \in 1..LifeIds : InvokeWrite(i)
  \/ \E i \in 1..LifeIds : InvokeResult(i)
  \/ \E p \in Procs : PodEmit(p, CbShapes, LifeIds)
  \/ \E p \in Procs : PodExit(p)
  \/ \E p \in Procs : Processor(p)
  \/ \E p \in Procs : ProcessorEOF(p)

SpecMeta == Init /\ [][NextMeta]_vars

\* ------------------------------------------------------------ invoke_public
\* The pod ids a caller may pass to invoke_public
PublicArgs == { [by |-> "id", key |-> k, p |-> 0] : k \in PodIds }

\* An invoke_public that takes any pod dict that carries the id
InvokePublicStale(i, x) ==
  LET pod_id == get_pod_id_from_spec(x)
  IN  /\ inv[i].pc = "idle"
      /\ \A j \in Ids : j < i => inv[j].pc # "idle"
      /\ \E q \in Procs :
           /\ podobj[q].pod_id = pod_id
           /\ chans' = [chans EXCEPT ![q] =
                 [y \in DOMAIN @ \cup {i} |-> IF y = i THEN NewFuture ELSE @[y]]]
           /\ inv' = [inv EXCEPT ![i] =
                 [pc |-> "registered", pod |-> q,
                  towrite |-> bencode_encode("invoke", i),
                  op |-> "invoke", ns |-> "", k |-> 0, pod_id |-> pod_id]]
      /\ UNCHANGED << proc, podobj, stdin, stdout, processor, pods,
                      loaded_namespaces, sys_modules, sinks, removed, ld, ds,
                      hist, nreplies, port >>

\* invoke_public(pod_id, fn_sym, args), pythonpods.py:984-994: the pod is
\* looked up; ValueError when there is none, else invoke(pod, ...) up to its
\* request being built, pythonpods.py:362-376.
InvokePublic(i, x) ==
  LET pod_id == get_pod_id_from_spec(x)
      pod == lookup_pod(pod_id)
  IN  /\ inv[i].pc = "idle"
      /\ \A j \in Ids : j < i => inv[j].pc # "idle"
      /\ IF pod = 0
         THEN /\ inv' = [inv EXCEPT ![i] =
                          [pc |-> "raised", pod |-> 0, towrite |-> << >>,
                           op |-> "invoke", ns |-> "", k |-> 0,
                           pod_id |-> pod_id]]
              /\ chans' = chans
         ELSE /\ inv' = [inv EXCEPT ![i] =
                          [pc |-> "registered", pod |-> pod,
                           towrite |-> bencode_encode("invoke", i),
                           op |-> "invoke", ns |-> "", k |-> 0,
                           pod_id |-> pod_id]]
              /\ chans' = [chans EXCEPT ![pod] =
                    [y \in DOMAIN @ \cup {i} |-> IF y = i THEN NewFuture ELSE @[y]]]
      /\ UNCHANGED << proc, podobj, stdin, stdout, processor, pods,
                      loaded_namespaces, sys_modules, sinks, removed, ld, ds,
                      hist, nreplies, port >>

NextPublic ==
  \/ \E p \in Procs : LoadRun(p)
  \/ \E p \in Procs : LoadDescribe(p, LifeInputs)
  \/ \E p \in Procs : LoadRegister(p)
  \/ \E p \in Procs : LoadExpose(p)
  \/ \E i \in Ids : \E x \in PublicArgs : InvokePublic(i, x)
  \/ \E i \in Ids : InvokeWrite(i)
  \/ \E i \in Ids : InvokeResult(i)
  \/ \E p \in Procs : PodEmit(p, CbShapes, LifeIds)
  \/ \E p \in Procs : PodExit(p)
  \/ \E p \in Procs : Processor(p)
  \/ \E d \in 1..LifeIds : \E x \in DestroyArgsLoaded : DestroyCall(d, x)
  \/ \E d \in 1..LifeIds : DestroyUnregister(d)
  \/ \E d \in 1..LifeIds : DestroyPod(d)
  \/ \E d \in 1..LifeIds : DestroyWait(d)
  \/ \E d \in 1..LifeIds : DestroyTimeout(d)
  \/ \E d \in 1..LifeIds : DestroyRemoveNs(d)
  \/ \E d \in 1..LifeIds : DestroyPop(d)

SpecPublic == Init /\ [][NextPublic]_vars

\* ------------------------------------------------------------------- claims
\* The reply envelopes with id i among those of s, in order
OfId(s, i) == SelectSeq(s, LAMBDA r : r.id = i)
\* What the processor of pod p has read for id i
XHist(p, i) == OfId(hist[p], i)
\* Everything the child of pod p has emitted, in order
Emitted(p) == hist[p] \o stdout[p]
\* A terminal envelope: status done or error (or a value that does not decode)
Terminal(r) == ReplyDone(r)
\* A run of replies that ends in its only terminal envelope
EndsInTerminal(h) ==
  /\ h # << >>
  /\ Terminal(h[Len(h)])
  /\ \A k \in 1..(Len(h) - 1) : ~Terminal(h[k])

\* C1: once the processor has processed, for the id of an invoke, replies
\* ending in the terminal one, the waiter has settled exactly once (a future
\* is done, a handler set got its error or done call), and a future is never
\* completed twice.
C1_SettlesOnce ==
  \A p \in Procs : \A i \in DOMAIN chans[p] :
    /\ EndsInTerminal(XHist(p, i)) =>
         /\ chans[p][i].nset = 1
         /\ chans[p][i].kind = "future" => FutureDone(chans[p][i])
    /\ chans[p][i].kind = "future" => chans[p][i].nset <= 1

C1_Witness ==
  \E p \in Procs : \E i \in DOMAIN chans[p] :
    /\ EndsInTerminal(XHist(p, i))
    /\ Len(XHist(p, i)) >= 2
    /\ chans[p][i].kind = "future"
    /\ chans[p][i].nset = 1
    /\ inv[i].pc \in {"returned", "raised"}

\* C2: once the processor has processed a terminal envelope for id i, i is no
\* longer a key of pod.chans.
C2_TerminalRemovesId ==
  \A p \in Procs : \A i \in Ids :
    (\E k \in 1..Len(XHist(p, i)) : Terminal(XHist(p, i)[k])) => i \notin DOMAIN chans[p]

\* Nothing the child emitted is left for the processor to deliver
Quiet(p) == stdout[p] = << >> \/ processor[p] \in {"crashed", "stopped"}

\* C3: the outcome of an invoke depends on the envelopes that carry its id
\* alone: once nothing is left to deliver, a future whose first reply is a
\* value holds that value, whatever was sent for other ids and in whatever
\* order.
C3_Independent ==
  \A p \in Procs : \A i \in DOMAIN chans[p] :
    LET e == OfId(Emitted(p), i)
    IN  ( /\ Quiet(p)
          /\ chans[p][i].kind = "future"
          /\ e # << >>
          /\ e[1].value.enc = "num"
          /\ e[1].status \subseteq {"done"} )
        => chans[p][i].state = "result" /\ chans[p][i].val = PyInt(e[1].value.n)

\* N value envelopes, then at most one envelope that only says done
ValueThenDone(h) ==
  \A k \in 1..Len(h) :
    \/ h[k].value.enc \in {"num", "nil"} /\ h[k].status = {}
    \/ k = Len(h) /\ h[k].value.enc = "absent" /\ h[k].status = {"done"}
\* The calls such a run asks for
StreamCalls(h) ==
  [k \in 1..Len(h) |->
     IF h[k].status = {}
     THEN [h |-> "success",
           val |-> IF h[k].value.enc = "num" THEN PyInt(h[k].value.n) ELSE PyNone]
     ELSE [h |-> "done", val |-> PyNone]]

\* C4: once nothing the child emitted is left to deliver, a handler set for
\* whose id the child emitted N value envelopes and then a done envelope has
\* received N success calls with the values in the order the child emitted
\* them, then one done call, and no success call after it.
C4_StreamDelivered ==
  \A p \in Procs : \A i \in DOMAIN chans[p] :
    LET e == OfId(Emitted(p), i)
    IN  ( /\ Quiet(p)
          /\ chans[p][i].kind = "handlers"
          /\ e # << >>
          /\ ValueThenDone(e)
          /\ e[Len(e)].status = {"done"} )
        => chans[p][i].calls = StreamCalls(e)

\* The processor of pod p is about to read one more value or error for a
\* future that is already done
LaterResolve(p) ==
  /\ processor[p] = "running"
  /\ stdout[p] # << >>
  /\ LET r == Head(stdout[p])
     IN  /\ r.id \in DOMAIN chans[p]
         /\ chans[p][r.id].kind = "future"
         /\ FutureDone(chans[p][r.id])
         /\ r.value.enc = "num" \/ "error" \in r.status

\* C5: a later value or error for a future that is done is a no-op: when the
\* processor reads it, neither the waiters nor the processor change.
C5_LaterResolveNoOp ==
  [][ \A p \in Procs :
        (LaterResolve(p) /\ hist'[p] # hist[p]) =>
          (chans' = chans /\ processor' = processor) ]_vars

\* C6: on the stream to a child, the two pieces of every request envelope lie
\* next to each other; no piece of another envelope comes between them.
C6_NoTornEnvelope ==
  \A p \in Procs : \A k \in 1..Len(stdin[p]) :
    /\ stdin[p][k].part = 1 =>
         (k = Len(stdin[p]) \/ stdin[p][k + 1] = [stdin[p][k] EXCEPT !.part = 2])
    /\ stdin[p][k].part = 2 =>
         (k > 1 /\ stdin[p][k - 1] = [stdin[p][k] EXCEPT !.part = 1])

\* Two invokes overlapped on one pod: the one called later wrote first.
C6_Witness ==
  \E p \in Procs : \E j, k \in 1..Len(stdin[p]) :
    /\ j < k
    /\ stdin[p][j].op = "invoke"
    /\ stdin[p][k].op = "invoke"
    /\ stdin[p][j].id > stdin[p][k].id

\* C7: once a destroy call that found its pod has returned, every waiter of
\* the pod that was pending when the call began has been failed with an
\* error, so no invoker is left blocked on it.
C7_DestroyFailsWaiters ==
  \A d \in Destroys :
    (ds[d].pc = "done" /\ ds[d].pod # 0) =>
      \A i \in ds[d].pending0 :
        /\ chans[ds[d].pod][i].state = "exception"
        /\ inv[i].pc # "waiting"

\* A destroy call was begun for pod p
DestroyInitiated(p) == \E d \in Destroys : ds[d].pc # "idle" /\ ds[d].named = p

\* C8: when the processor has met end-of-stream and no destroy was begun for
\* its pod, every waiter left in pod.chans has been failed.
C8_CrashFailsWaiters ==
  \A p \in Procs :
    (processor[p] = "stopped" /\ ~DestroyInitiated(p)) =>
      \A i \in DOMAIN chans[p] : chans[p][i].state = "exception"

Destroyed(p) == \E d \in Destroys : ds[d].pc = "done" /\ ds[d].named = p

\* C10: after destroy(pod) returns, the registry no longer returns that pod
\* for its id and none of its namespaces is tracked as loaded; and the
\* registry holds exactly the pods that load_pod loaded and that were not
\* destroyed.
C10_RegistryExact ==
  /\ \A p \in Procs :
       Destroyed(p) =>
         /\ lookup_pod(podobj[p].pod_id) # p
         /\ \A m \in ModuleNames :
              sys_modules[m].pod_id = podobj[p].pod_id => pods[podobj[p].pod_id] # 0
  /\ \A p \in Procs :
       (ld[p] = "done" /\ ~DestroyInitiated(p)) => lookup_pod(podobj[p].pod_id) = p
  /\ \A k \in PodIds : pods[k] # 0 => ld[pods[k]] \in {"registered", "done"}

\* Pod p was launched by a load_pod call that returned, its child runs, and
\* no destroy call was begun for it
Live(p) == ld[p] = "done" /\ proc[p] = "running" /\ ~DestroyInitiated(p)

\* C11: no two live pods share a pod_id, and the registry returns every live
\* pod for its pod_id.
C11_UniquePodId ==
  /\ \A p, q \in Procs :
       (Live(p) /\ Live(q) /\ p # q) => podobj[p].pod_id # podobj[q].pod_id
  /\ \A p \in Procs : Live(p) => lookup_pod(podobj[p].pod_id) = p

\* The namespace names tracked as loaded for pod p, and those registered as
\* modules of its pod id
Tracked(p) == loaded_namespaces[podobj[p].pod_id]
ModulesOf(p) ==
  { sys_modules[m].ns : m \in { x \in ModuleNames : sys_modules[x].pod_id = podobj[p].pod_id } }
\* The load_ns calls for namespace n of pod p whose reply has arrived
GotReply(p, n) ==
  { i \in Ids : /\ inv[i].op = "load-ns" /\ inv[i].pod = p /\ inv[i].ns = n
                /\ inv[i].pc \in {"expose", "returned"} }
\* The names the pod dict of p advertises with defer, and without
DeferredNames(p) ==
  { podobj[p].namespaces[k].name :
      k \in { j \in 1..Len(podobj[p].namespaces) : podobj[p].namespaces[j].defer } }
EagerNames(p) ==
  { podobj[p].namespaces[k].name :
      k \in { j \in 1..Len(podobj[p].namespaces) : ~podobj[p].namespaces[j].defer } }

\* C12: once load_pod has returned, the pod's non-deferred namespaces are
\* registered as modules and tracked as loaded, and they are all that is
\* announced as long as no load_ns call has returned; a deferred namespace is
\* announced only when a load_ns call for it has received its reply, and its
\* module then holds the vars of such a reply (the vars of the describe reply
\* when the reply carried none).
C12_Announcement ==
  \A p \in Procs :
    Published(p) =>
      /\ ld[p] = "done" => EagerNames(p) \subseteq (Tracked(p) \cap ModulesOf(p))
      /\ (ld[p] = "done" /\ \A i \in Ids : inv[i].pc \notin {"expose", "returned"})
           => (Tracked(p) = EagerNames(p) /\ ModulesOf(p) = EagerNames(p))
      /\ \A n \in DeferredNames(p) \cap (Tracked(p) \cup ModulesOf(p)) :
           /\ GotReply(p, n) # {}
           /\ LET v == sys_modules[namespace_to_module_name(n)].vars
              IN  \E i \in GotReply(p, n) :
                    /\ chans[p][i].state = "result"
                    /\ IF chans[p][i].val.tag = "namespace"
                       THEN v = chans[p][i].val.n
                       ELSE v = 0


\* The processor of pod p takes a step in which it reads the envelope r
Reads(p, r) == hist'[p] # hist[p] /\ stdout[p] # << >> /\ r = Head(stdout[p])

\* C13: when the processor reads an envelope whose id is absent or not a key
\* of pod.chans, no waiter changes, and the envelope's out and err texts are
\* written to the sinks.
C13_UnknownIdForwarded ==
  [][ \A p \in Procs : \A r \in {Head(stdout[q]) : q \in {x \in Procs : stdout[x] # << >>}} :
        (Reads(p, r) /\ r.id \notin DOMAIN chans[p]) =>
          /\ chans' = chans
          /\ sinks' = sinks \o Forwarded(r) ]_vars

\* What the "ex-data" text of envelope r decodes to ({} when it is absent or
\* does not decode)
DecodedExData(r) ==
  IF r.ex_data.enc = "num" THEN PyInt(r.ex_data.n) ELSE PyEmptyDict

\* C14: when the processor reads an envelope with status error for a waiter
\* (a future not yet done, or a handler set), the future fails with a
\* PodError that carries the envelope's ex-message and decoded ex-data, the
\* handler set gets one error call with them and no success call; and a
\* synchronous invoke whose future failed never returns a value.
C14_ErrorReply ==
  [][ /\ \A p \in Procs : \A i \in DOMAIN chans'[p] :
           (chans'[p][i].kind = "future" /\ chans'[p][i].state = "exception")
             => inv'[i].pc # "returned"
      /\ \A p \in Procs : \A r \in {Head(stdout[q]) : q \in {x \in Procs : stdout[x] # << >>}} :
           (Reads(p, r) /\ "error" \in r.status /\ r.id \in DOMAIN chans[p]) =>
             LET w == chans[p][r.id]
                 v == chans'[p][r.id]
             IN  /\ (w.kind = "future" /\ ~FutureDone(w)) =>
                       /\ v.state = "exception"
                       /\ v.val.tag = "PodError"
                       /\ v.val.message = r.ex_message
                       /\ v.val.data = DecodedExData(r)
                 /\ w.kind = "handlers" =>
                       /\ Len(v.calls) = Len(w.calls) + 1
                       /\ SubSeq(v.calls, 1, Len(w.calls)) = w.calls
                       /\ v.calls[Len(v.calls)].h = "error"
                       /\ v.calls[Len(v.calls)].val.message = r.ex_message
                       /\ v.calls[Len(v.calls)].val.data = DecodedExData(r) ]_vars

\* A synchronous invoke raised the PodError of an error reply that carried a
\* message and decodable data.
C14_Witness ==
  \E p \in Procs : \E i \in DOMAIN chans[p] :
    /\ chans[p][i].kind = "future"
    /\ chans[p][i].state = "exception"
    /\ chans[p][i].val.message = "boom"
    /\ chans[p][i].val.data.tag = "int"
    /\ inv[i].pc = "raised"

\* C15: a reply whose value payload fails to decode is not fatal to the pod:
\* whenever the processor reads such a reply for a registered id, the waiter
\* of that id ends up settled with an error (a future is done, a handler set
\* has had its error handler called) and the processor is still running
\* afterwards, so that later replies for other ids are still dispatched.
C15_DecodeFailureNotFatal ==
  [][ \A p \in Procs : \A r \in {Head(stdout[q]) : q \in {x \in Procs : stdout[x] # << >>}} :
        (Reads(p, r) /\ ReplyDecode(r).raised /\ r.id \in DOMAIN chans[p]) =>
          LET v == chans'[p][r.id]
          IN  /\ processor'[p] = "running"
              /\ v.kind = "future" => FutureDone(v)
              /\ v.kind = "handlers" =>
                    /\ v.calls # << >>
                    /\ v.calls[Len(v.calls)].h = "error" ]_vars

\* C16: when load_pod has failed because the child exited before the describe
\* reply, the child has been reaped, no registry entry names that pod and no
\* processor was started for it.
C16_HandshakeFailureCleansUp ==
  \A p \in Procs :
    ld[p] = "raised" =>
      /\ proc[p] = "reaped"
      /\ \A k \in DOMAIN pods : pods[k] # p
      /\ processor[p] = "none"

\* C17: load_ns requires load-ns in the pod's ops: on a loaded pod whose
\* describe reply did not advertise load-ns, no load-ns envelope is ever
\* written to the child and no waiter is registered by a load_ns call.
C17_LoadNsRequiresOp ==
  \A p \in Procs :
    (Published(p) /\ "load-ns" \notin podobj[p].ops) =>
      /\ LoadNsRequests(stdin[p]) = {}
      /\ \A i \in DOMAIN chans[p] : ~(inv[i].pod = p /\ inv[i].op = "load-ns")

\* C18: destroy takes the shutdown path its pod's ops select and leaves no
\* live process: once a destroy call for a pod has returned, that pod's
\* process is not running, and if shutdown is not among the pod's ops no
\* shutdown envelope was written to it.
C18_DestroyStopsProcess ==
  \A d \in Destroys :
    (ds[d].pc = "done" /\ ds[d].named # 0) =>
      /\ proc[ds[d].named] # "running"
      /\ "shutdown" \notin podobj[ds[d].named].ops =>
            \A k \in 1..Len(stdin[ds[d].named]) : stdin[ds[d].named][k].op # "shutdown"

\* C19: an error envelope is terminal for a callback waiter and does not
\* suppress its done notification: when the processor reads an envelope that
\* has status error, or whose value fails to decode, for a handler set, the
\* error handler is called, then the done handler, and the id's entry is
\* removed from the pod's waiters.
C19_ErrorAlsoNotesDone ==
  [][ \A p \in Procs : \A r \in {Head(stdout[q]) : q \in {x \in Procs : stdout[x] # << >>}} :
        (Reads(p, r) /\ ReplyError(r) /\ r.id \in DOMAIN chans[p]
           /\ chans[p][r.id].kind = "handlers") =>
          /\ r.id \in DOMAIN chans'[p] =>
                LET w == chans[p][r.id]
                    v == chans'[p][r.id]
                IN  /\ Len(v.calls) = Len(w.calls) + 2
                    /\ v.calls[Len(w.calls) + 1].h = "error"
                    /\ v.calls[Len(w.calls) + 2].h = "done"
          /\ r.id \notin DOMAIN chans'[p] ]_vars

\* C20: the processor stops reading only at end of stream: in every step in
\* which the processor of a pod leaves its loop, nothing is left to read on
\* the child's output and the child is no longer running.
C20_StopsOnlyAtEOF ==
  [][ \A p \in Procs :
        (processor[p] = "running" /\ processor'[p] # "running") =>
          (stdout[p] = << >> /\ proc[p] # "running") ]_vars

\* An envelope that says done and nothing else: no value, no error status,
\* no vars
DoneOnly(r) ==
  r.value.enc = "absent" /\ r.status = {"done"} /\ ~r.vars

\* C21: when the processor reads a done envelope for the id of a future that
\* has received neither a value nor an error, the future is settled with
\* None (so that the blocked invoker is released); when the future is already
\* settled, the done envelope leaves it exactly as it was.
C21_DoneSettlesEmpty ==
  [][ \A p \in Procs : \A r \in {Head(stdout[q]) : q \in {x \in Procs : stdout[x] # << >>}} :
        (Reads(p, r) /\ DoneOnly(r) /\ r.id \in DOMAIN chans[p]
           /\ chans[p][r.id].kind = "future") =>
          LET w == chans[p][r.id]
              v == chans'[p][r.id]
          IN  IF w.state = "pending"
              THEN v.state = "result" /\ v.val = PyNone
              ELSE v = w ]_vars

\* A synchronous invoke whose first reply was a lone done envelope returned
\* None.
C21_Witness ==
  \E p \in Procs : \E i \in DOMAIN chans[p] :
    /\ chans[p][i].kind = "future"
    /\ XHist(p, i) # << >>
    /\ DoneOnly(XHist(p, i)[1])
    /\ chans[p][i].state = "result" /\ chans[p][i].val = PyNone
    /\ inv[i].pc = "returned"

\* C22: the processor never waits, while it delivers to a waiter, for a reply
\* that it alone can deliver: it is never inside a handler that is blocked on
\* the result of an invoke on the processor's own pod.
C22_ProcessorNeverBlocks ==
  \A p \in Procs : \A j \in Ids :
    ~(processor[p] = "blocked" /\ inv[j].k = p /\ inv[j].pod = p
        /\ inv[j].pc = "waiting")

\* C23: load_pod of one pod and destroy of another pod tolerate each other:
\* a destroy call for a loaded pod whose id no other pod shares, with no
\* other destroy call under way, never ends with an error, and once load_pod(A) has returned and destroy(B), called
\* with B's id, has returned, for pods A and B with different ids, A is still
\* registered with its non-deferred namespaces announced and B and its
\* modules are gone.
C23_ConcurrentLoadDestroy ==
  /\ \A d \in Destroys :
       (ds[d].pc = "raised" /\ \A e \in Destroys \ {d} : ds[e].pc = "idle") =>
         \E a \in Procs : a # ds[d].pod /\ podobj[a].pod_id = podobj[ds[d].pod].pod_id
  /\ \A a, b \in Procs : \A d \in Destroys :
       ( /\ ld[a] = "done" /\ ~DestroyInitiated(a)
         /\ ds[d].pc = "done" /\ ds[d].by = "id" /\ ds[d].named = b
         /\ podobj[a].pod_id # podobj[b].pod_id ) =>
           /\ lookup_pod(podobj[a].pod_id) = a
           /\ EagerNames(a) \subseteq (Tracked(a) \cap ModulesOf(a))
           /\ lookup_pod(podobj[b].pod_id) # b
           /\ ModulesOf(b) = {}

\* C24: a pod has at most one processor and, once started, it is the only
\* reader of the pod's stream: the processor is started once, by load_pod,
\* in the step that has read the describe reply; and every step that takes
\* an envelope off the stream is a step of the running processor, which
\* leaves every load_pod, invoke, load_ns and destroy call where it was.
C24_SingleReader ==
  [][ \A p \in Procs :
        /\ (processor[p] = "none" /\ processor'[p] # "none") =>
              (ld[p] = "describing" /\ ld'[p] = "started")
        /\ (processor[p] # "running" /\ processor'[p] = "running") =>
              processor[p] = "none"
        /\ processor'[p] # "none" => ld'[p] \notin {"idle", "describing"}
        /\ Len(stdout'[p]) < Len(stdout[p]) =>
              /\ processor[p] = "running"
              /\ stdout'[p] = Tail(stdout[p])
              /\ hist'[p] = Append(hist[p], Head(stdout[p]))
              /\ UNCHANGED << ld, inv, ds >> ]_vars

\* The processor has read a reply off the stream, a synchronous call has
\* returned with it, and a destroy of the pod is past its shutdown.
C24_Witness ==
  \E p \in Procs : \E i \in Ids :
    /\ processor[p] = "running"
    /\ inv[i].pod = p /\ inv[i].pc = "returned"
    /\ XHist(p, i) # << >>
    /\ \E d \in Destroys : ds[d].pc = "remove_ns" /\ ds[d].pod = p


\* C25: socket start-up ends: an iteration of the port-file poll or of the
\* connect retry loop that finds the child already exited does not go back
\* to sleep for another round.
C25_SocketStartupEnds ==
  [][ \A p \in Procs :
        proc[p] # "running" =>
          /\ ~(ld[p] = "polling" /\ ld'[p] = "port_sleep")
          /\ ~(ld[p] = "connecting" /\ ld'[p] = "connect_sleep") ]_vars

\* How often e occurs in the sequence s
Occurrences(s, e) == Cardinality({ k \in 1..Len(s) : s[k] = e })

\* C26: once destroy of a pod loaded with a remove_ns hook has returned, the
\* hook has been invoked exactly once with each namespace name of the pod; the
\* hook is only ever invoked by a destroy call that found its pod registered,
\* with the names of that pod, after the pod's modules were unregistered and
\* its process shut down.
C26_RemoveNsOnce ==
  [][ /\ \A p \in Procs : \A d \in Destroys :
           (ds'[d].pc = "done" /\ ds'[d].named = p /\ podobj'[p].remove_ns) =>
             \A k \in 1..Len(podobj'[p].namespaces) :
               Occurrences(removed', << p, podobj'[p].namespaces[k].name >>) = 1
      /\ removed' # removed =>
           \E d \in Destroys :
             /\ ds[d].pod # 0
             /\ ds[d].pc = "remove_ns"
             /\ ModulesOf(ds[d].pod) = {}
             /\ proc[ds[d].pod] # "running"
             /\ removed' = removed \o
                   [k \in 1..Len(podobj[ds[d].pod].namespaces) |->
                      << ds[d].pod, podobj[ds[d].pod].namespaces[k].name >>] ]_vars

\* C27: a load_pod given the metadata option skips the handshake: when its
\* processor starts nothing has been written to the child and nothing read
\* from it, no describe envelope is ever written to the child, and the pod's
\* format, ops, pod id and namespaces are those of the supplied reply.
C27_MetadataSkipsHandshake ==
  [][ \A p \in Procs :
        podobj'[p].metadata # NoMetadata =>
          LET m == podobj'[p].metadata[1]
          IN  /\ podobj'[p].format = (IF m.format = "" THEN "edn" ELSE m.format)
              /\ podobj'[p].ops = m.ops
              /\ podobj'[p].namespaces = m.namespaces
              /\ podobj'[p].pod_id =
                    (IF Len(m.namespaces) > 0 THEN m.namespaces[1].name
                                              ELSE Uuids[p])
              /\ \A k \in 1..Len(stdin'[p]) : stdin'[p][k].op # "describe"
              /\ (processor[p] = "none" /\ processor'[p] # "none") =>
                    /\ stdin'[p] = << >>
                    /\ stdout' = stdout
                    /\ hist' = hist /\ hist[p] = << >> ]_vars
C27_Witness ==
  \E p \in Procs :
    /\ podobj[p].metadata # NoMetadata
    /\ ld[p] = "done"
    /\ hist[p] # << >>
    /\ \E i \in Ids : inv[i].pod = p /\ inv[i].pc = "returned"

\* The ids of the invoke and load-ns requests on the input of pod p
Requested(in) ==
  { in[k].id : k \in { j \in 1..Len(in) : in[j].op \in {"invoke", "load-ns"} } }

\* C28: the waiter of an invoke or load_ns is in pod.chans before any byte of
\* its request is on the pod's input, so whenever the processor reads a reply
\* to such a request it finds the waiter under the reply's id.
C28_WaiterBeforeRequest ==
  [][ \A p \in Procs :
        /\ Requested(stdin'[p]) \subseteq DOMAIN chans'[p]
        /\ \A r \in {Head(stdout[q]) : q \in {x \in Procs : stdout[x] # << >>}} :
             (Reads(p, r) /\ r.id \in Requested(stdin[p])) =>
               r.id \in DOMAIN chans[p] ]_vars
C28_Witness ==
  \E p \in Procs : \E i, j \in Ids :
    /\ inv[i].pod = p /\ inv[i].op = "invoke" /\ inv[i].pc = "returned"
    /\ \E k \in 1..Len(hist[p]) : hist[p][k].id = i
    /\ inv[j].pod = p /\ inv[j].op = "load-ns"
    /\ j \in Requested(stdin[p])

\* C29: an invoke_public whose pod id is not a key of the registry when it
\* is called raises pod-not-found and changes nothing: no waiter is added
\* to any pod's chans and nothing is written to any stream.
C29_UnknownPodNoEffect ==
  [][ \A i \in Ids :
        (inv[i].pc = "idle" /\ inv'[i].pc # "idle"
           /\ inv'[i].pod_id # NoneId /\ pods[inv'[i].pod_id] = 0) =>
          /\ inv'[i].pc = "raised"
          /\ chans' = chans
          /\ stdin' = stdin
          /\ UNCHANGED << proc, podobj, stdout, processor, pods,
                          loaded_namespaces, sys_modules, sinks, removed, ld,
                          ds, hist >> ]_vars
C29_Witness ==
  \E i, j \in Ids :
    /\ inv[i].pc = "raised" /\ inv[i].pod = 0
    /\ \E p \in Procs : Destroyed(p) /\ podobj[p].pod_id = inv[i].pod_id
    /\ inv[j].pc = "raised" /\ inv[j].pod = 0
    /\ \A p \in Procs : podobj[p].pod_id # inv[j].pod_id

\* C30: when the processor reads an envelope with a value field whose payload
\* decodes, for an id whose waiter is a pending future, the future is settled
\* after the step, also when the value is nil and the status is not done.
C30_ValueSettles ==
  [][ \A p \in Procs : \A r \in {Head(stdout[q]) : q \in {x \in Procs : stdout[x] # << >>}} :
        (/\ Reads(p, r)
         /\ r.value.enc \in {"num", "nil"}
         /\ r.id \in DOMAIN chans[p]
         /\ chans[p][r.id].kind = "future"
         /\ chans[p][r.id].state = "pending") =>
          chans'[p][r.id].state # "pending" ]_vars
====
